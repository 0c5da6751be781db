---------------------------- MODULE FileTransfer ----------------------------
(***************************************************************************)
(* Clipboard file transfer from one daemon to another: the sender offers   *)
(* the selected files by hash (dispatch_files), cancels the batch it       *)
(* supersedes and fills its file cache; the receiver opens a collector per *)
(* batch and one task per file (apply_inbound_files_task), which fetches   *)
(* the body, writes it to a staging file, renames it into accept_dir and   *)
(* reports; when the collector is complete the landed files are put on the *)
(* receiver's clipboard.                                                   *)
(*                                                                         *)
(* A selection is <<fingerprint, entries>>, an entry <<name, hash>>.  The  *)
(* cancel registry maps a hash to the task whose oneshot sender it holds.  *)
(* The task's receiver resolves when that sender is used ("signalled") and *)
(* also when it is dropped by an overwrite or a removal ("dropped").       *)
(***************************************************************************)
EXTENDS ClipboardCache, FiniteSets

CONSTANTS
  Selection,   \* what the sender's user may copy
  Name,
  NoSel, NoFile,
  MaxTasks,    \* tasks the receiver may spawn, at least the entries offered
  MaxCopies,
  MaxFaults    \* bound on read errors, failed fetches and failed writes

VARIABLES
  files, last_outbound_files_fingerprint, last_outbound_files_sha, file_cache,
  dispatching,              \* NoSel, or the batch whose bodies are being read
  stream_c,                 \* <<"files", selection>> | <<"cancel", hash>>
  expected, received,       \* pending_file_collectors, by fingerprint
  inbound_file_cancel_txs,  \* hash -> task, 0 when absent
  stage, job, cancel_rx, path,  \* the tasks; job[t] = <<fingerprint, name, hash>>
  files_applied_rx,         \* <<task, success>>
  partial, disk,            \* accept_dir: staging files and landed files
  injected,                 \* <<task, path>> put on the receiver's clipboard
  copies, faults

senderVars == <<files, last_outbound_files_fingerprint, last_outbound_files_sha,
                file_cache, dispatching>>
taskVars == <<inbound_file_cancel_txs, stage, job, cancel_rx, path>>
diskVars == <<partial, disk>>
collectorVars == <<expected, received, injected>>
vars == <<senderVars, stream_c, collectorVars, taskVars, diskVars,
          files_applied_rx, copies, faults>>

Task == 1..MaxTasks
\* resolve_unique_path probes name, "name (1)", ...: MaxTasks suffixes suffice.
Path == Name \X (0..MaxTasks)
Fingerprint == {s[1] : s \in Selection}
Entries(s) == s[2]
ShasOf(s) == [i \in DOMAIN Entries(s) |-> Entries(s)[i][2]]
Members(q) == {q[i] : i \in DOMAIN q}
Batch(t) == job[t][1]
HashOf(t) == job[t][3]
Resolved(t) == cancel_rx[t] # "pending"

TypeOK ==
  /\ {files, dispatching} \subseteq Selection \cup {NoSel}
  /\ Members(last_outbound_files_sha) \subseteq Sha
  /\ CacheConsistent(file_cache)
  /\ expected \in [Fingerprint -> Nat]
  /\ inbound_file_cancel_txs \in [Sha -> 0..MaxTasks]
  /\ stage \in [Task -> {"free", "spawned", "fetch", "write", "rename", "landed",
                         "failed", "done"}]
  /\ cancel_rx \in [Task -> {"pending", "signalled", "dropped"}]
  /\ partial \in [Path -> Sha \cup {NoFile}] /\ disk \in [Path -> Sha \cup {NoFile}]

Init ==
  /\ files = NoSel /\ last_outbound_files_fingerprint = NoSel
  /\ last_outbound_files_sha = <<>> /\ file_cache = CacheNew /\ dispatching = NoSel
  /\ stream_c = <<>>
  /\ expected = [f \in Fingerprint |-> 0] /\ received = [f \in Fingerprint |-> <<>>]
  /\ inbound_file_cancel_txs = [s \in Sha |-> 0]
  /\ stage = [t \in Task |-> "free"] /\ job = [t \in Task |-> <<NoSel, NoFile, NoFile>>]
  /\ cancel_rx = [t \in Task |-> "pending"] /\ path = [t \in Task |-> NoFile]
  /\ files_applied_rx = <<>>
  /\ partial = [p \in Path |-> NoFile] /\ disk = [p \in Path |-> NoFile]
  /\ injected = {} /\ copies = 0 /\ faults = 0

-----------------------------------------------------------------------------
(* The sender. *)

\* The user selects files in the file manager and copies them.
Copy(s) ==
  /\ copies < MaxCopies /\ copies' = copies + 1
  /\ files # s /\ files' = s
  /\ UNCHANGED <<last_outbound_files_fingerprint, last_outbound_files_sha, file_cache,
                 dispatching, stream_c, collectorVars, taskVars, diskVars,
                 files_applied_rx, faults>>

FingerprintMatch(s) == s[1] = last_outbound_files_fingerprint

\* What the decision may be: the batch is offered, or one of its files exceeds
\* the limit.  (A directory or an I/O error drops the batch without a trace.)
dispatch_files_decide(s) ==
  IF s = NoSel THEN {"Empty"}
  ELSE IF FingerprintMatch(s) THEN {"FingerprintMatch"}
  ELSE {"Ok", "ExceedsLimit"}

\* dispatch_files_build_cancel_events: the superseded bodies leave the cache.
RemoveAll(c, shas) == FoldSet(LAMBDA s, acc : CacheRemove(acc, s), c, Members(shas))
CancelEvents(shas) == [i \in DOMAIN shas |-> <<"cancel", shas[i]>>]

\* dispatch_files up to the await of the blocking read: cancels, then the offer.
DispatchFiles ==
  /\ dispatching = NoSel /\ "Ok" \in dispatch_files_decide(files)
  /\ dispatching' = files
  /\ file_cache' = RemoveAll(file_cache, last_outbound_files_sha)
  /\ stream_c' = stream_c \o CancelEvents(last_outbound_files_sha)
                          \o <<<<"files", files>>>>
  /\ last_outbound_files_sha' = <<>>
  /\ UNCHANGED <<files, last_outbound_files_fingerprint, collectorVars, taskVars,
                 diskVars, files_applied_rx, copies, faults>>

\* A batch refused for its size: only its fingerprint is remembered.
DispatchRefused ==
  /\ dispatching = NoSel /\ "ExceedsLimit" \in dispatch_files_decide(files)
  /\ faults < MaxFaults /\ faults' = faults + 1
  /\ last_outbound_files_fingerprint' = files[1]
  /\ UNCHANGED <<files, last_outbound_files_sha, file_cache, dispatching, stream_c,
                 collectorVars, taskVars, diskVars, files_applied_rx, copies>>

\* The blocking read of the first k bodies, and the stamps after it.  A read
\* error abandons the rest; the offer and the stamps stand.
InsertFirst(c, s, k) ==
  LET Step[i \in 0..k] ==
        IF i = 0 THEN c ELSE CacheInsert(Step[i - 1], Entries(s)[i][2])
  IN Step[k]

FillCache(k) ==
  /\ dispatching # NoSel /\ k \in 0..Len(Entries(dispatching))
  /\ \/ k = Len(Entries(dispatching)) /\ faults' = faults
     \/ k < Len(Entries(dispatching)) /\ faults < MaxFaults /\ faults' = faults + 1
  /\ file_cache' = InsertFirst(file_cache, dispatching, k)
  /\ last_outbound_files_fingerprint' = dispatching[1]
  /\ last_outbound_files_sha' = ShasOf(dispatching)
  /\ dispatching' = NoSel
  /\ UNCHANGED <<files, stream_c, collectorVars, taskVars, diskVars,
                 files_applied_rx, copies>>

-----------------------------------------------------------------------------
(* The receiver's service loop. *)

\* handle_clipboard_inbound_files: the collector replaces one of the same
\* fingerprint; one task per entry is spawned.  (The loopback list consulted
\* here holds hashes of files, never of selections, so it does not match.)
InboundFiles ==
  /\ stream_c # <<>> /\ Head(stream_c)[1] = "files"
  /\ LET s == Head(stream_c)[2]
         used == Cardinality({t \in Task : stage[t] # "free"})
         New(t) == t \in (used + 1)..(used + Len(Entries(s)))
     IN /\ used + Len(Entries(s)) <= MaxTasks
        /\ expected' = [expected EXCEPT ![s[1]] = Len(Entries(s))]
        /\ received' = [received EXCEPT ![s[1]] = <<>>]
        /\ stage' = [t \in Task |-> IF New(t) THEN "spawned" ELSE stage[t]]
        /\ job' = [t \in Task |-> IF New(t) THEN <<s[1]>> \o Entries(s)[t - used]
                                            ELSE job[t]]
  /\ stream_c' = Tail(stream_c)
  /\ UNCHANGED <<senderVars, injected, inbound_file_cancel_txs, cancel_rx, path,
                 diskVars, files_applied_rx, copies, faults>>

\* The registry entry of a hash is removed or replaced: what its task sees.
Resolve(s, how) ==
  LET t == inbound_file_cancel_txs[s]
  IN [u \in Task |-> IF u = t /\ ~Resolved(u) THEN how ELSE cancel_rx[u]]
Registered(s, t) == [inbound_file_cancel_txs EXCEPT ![s] = t]

\* signal_inbound_file_cancel; a hash without an entry is ignored.
InboundCancel ==
  /\ stream_c # <<>> /\ Head(stream_c)[1] = "cancel"
  /\ LET s == Head(stream_c)[2]
     IN /\ cancel_rx' = Resolve(s, "signalled")
        /\ inbound_file_cancel_txs' = Registered(s, 0)
  /\ stream_c' = Tail(stream_c)
  /\ UNCHANGED <<senderVars, collectorVars, stage, job, path, diskVars,
                 files_applied_rx, copies, faults>>

\* decide_reinject_skip over the results of a complete batch.
AllLanded(results) == \A i \in DOMAIN results : results[i][2]

\* maybe_inject_files_to_clipboard; set_files may fail, and is not retried.
Inject(results) ==
  IF AllLanded(results)
  THEN \/ /\ injected' = {<<results[i][1], path[results[i][1]]>> : i \in DOMAIN results}
          /\ faults' = faults
       \/ injected' = injected /\ faults < MaxFaults /\ faults' = faults + 1
  ELSE UNCHANGED <<injected, faults>>

\* handle_inbound_files_applied.
FileApplied ==
  /\ files_applied_rx # <<>>
  /\ LET r == Head(files_applied_rx)
         f == Batch(r[1])
         results == Append(received[f], r)
     IN \/ expected[f] = 0 /\ UNCHANGED <<collectorVars, faults>>
        \/ /\ expected[f] > Len(results)
           /\ received' = [received EXCEPT ![f] = results]
           /\ UNCHANGED <<expected, injected, faults>>
        \/ /\ expected[f] > 0 /\ expected[f] = Len(results)
           /\ expected' = [expected EXCEPT ![f] = 0]
           /\ received' = [received EXCEPT ![f] = <<>>]
           /\ Inject(results)
  /\ files_applied_rx' = Tail(files_applied_rx)
  /\ UNCHANGED <<senderVars, stream_c, taskVars, diskVars, copies>>

-----------------------------------------------------------------------------
(* apply_inbound_files_task, one per file. *)

\* The first poll: the task registers its oneshot sender under the hash,
\* which drops the sender another task may have left there.
Register(t) ==
  /\ stage[t] = "spawned"
  /\ stage' = [stage EXCEPT ![t] = "fetch"]
  /\ cancel_rx' = Resolve(HashOf(t), "dropped")
  /\ inbound_file_cancel_txs' = Registered(HashOf(t), t)
  /\ UNCHANGED <<senderVars, stream_c, collectorVars, job, path, diskVars,
                 files_applied_rx, copies, faults>>

\* The biased select: a resolved receiver wins over the fetch.  The registry
\* is left alone and nothing is reported.
FetchCancelled(t) ==
  /\ stage[t] = "fetch" /\ Resolved(t)
  /\ stage' = [stage EXCEPT ![t] = "done"]
  /\ UNCHANGED <<senderVars, stream_c, collectorVars, inbound_file_cancel_txs, job,
                 cancel_rx, path, diskVars, files_applied_rx, copies, faults>>

\* The GET is answered with the body.
Fetch(t) ==
  /\ stage[t] = "fetch" /\ ~Resolved(t) /\ CacheHit(file_cache, HashOf(t))
  /\ stage' = [stage EXCEPT ![t] = "write"]
  /\ UNCHANGED <<senderVars, stream_c, collectorVars, inbound_file_cancel_txs, job,
                 cancel_rx, path, diskVars, files_applied_rx, copies, faults>>


\* Not found, or the stream broke: the failure is reported and the registry
\* entry of the hash removed.
FetchFails(t) ==
  /\ stage[t] = "fetch" /\ ~Resolved(t)
  /\ \/ ~CacheHit(file_cache, HashOf(t)) /\ faults' = faults
     \/ faults < MaxFaults /\ faults' = faults + 1
  /\ stage' = [stage EXCEPT ![t] = "done"]
  /\ cancel_rx' = Resolve(HashOf(t), "dropped")
  /\ inbound_file_cancel_txs' = Registered(HashOf(t), 0)
  /\ files_applied_rx' = Append(files_applied_rx, <<t, FALSE>>)
  /\ UNCHANGED <<senderVars, stream_c, collectorVars, job, path, diskVars, copies>>

\* resolve_unique_path: the first suffix for which no landed file exists.
UniquePath(name) ==
  LET n == CHOOSE n \in 0..MaxTasks : /\ disk[<<name, n>>] = NoFile
                                     /\ \A m \in 0..(n - 1) : disk[<<name, m>>] # NoFile
  IN <<name, n>>

\* write_and_verify_file_blocking, on a blocking thread: the staging file...
WritePartial(t) ==
  /\ stage[t] = "write"
  /\ LET p == UniquePath(job[t][2])
     IN /\ path' = [path EXCEPT ![t] = p]
        /\ partial' = [partial EXCEPT ![p] = HashOf(t)]
  /\ stage' = [stage EXCEPT ![t] = "rename"]
  /\ UNCHANGED <<senderVars, stream_c, collectorVars, inbound_file_cancel_txs, job,
                 cancel_rx, disk, files_applied_rx, copies, faults>>

\* ... and its rename, which fails when the staging file is gone.
Rename(t) ==
  /\ stage[t] = "rename"
  /\ LET p == path[t]
     IN \/ /\ partial[p] # NoFile
           /\ disk' = [disk EXCEPT ![p] = partial[p]]
           /\ partial' = [partial EXCEPT ![p] = NoFile]
           /\ stage' = [stage EXCEPT ![t] = "landed"]
        \/ /\ partial[p] = NoFile
           /\ stage' = [stage EXCEPT ![t] = "failed"] /\ UNCHANGED diskVars
  /\ UNCHANGED <<senderVars, stream_c, collectorVars, inbound_file_cancel_txs, job,
                 cancel_rx, path, files_applied_rx, copies, faults>>

\* A body whose hash is wrong (the sender's file changed after it was hashed)
\* or a write error: the staging file is deleted, or stays (keep_partial, or
\* the error left it).
WriteFails(t) ==
  /\ stage[t] = "rename" /\ faults < MaxFaults /\ faults' = faults + 1
  /\ \E left \in {partial[path[t]], NoFile} :
       partial' = [partial EXCEPT ![path[t]] = left]
  /\ stage' = [stage EXCEPT ![t] = "failed"]
  /\ UNCHANGED <<senderVars, stream_c, collectorVars, inbound_file_cancel_txs, job,
                 cancel_rx, path, disk, files_applied_rx, copies>>

\* apply_files_inner_returning_path reports how the write ended.
Report(t) == files_applied_rx' = Append(files_applied_rx, <<t, stage[t] = "landed">>)


\* The task resumes: it reports, deletes what it landed if it was cancelled in
\* the meantime, and removes the registry entry of its hash.
Finish(t) ==
  /\ stage[t] \in {"landed", "failed"}
  /\ Report(t)
  /\ disk' = IF stage[t] = "landed" /\ Resolved(t)
             THEN [disk EXCEPT ![path[t]] = NoFile] ELSE disk
  /\ cancel_rx' = Resolve(HashOf(t), "dropped")
  /\ inbound_file_cancel_txs' = Registered(HashOf(t), 0)
  /\ stage' = [stage EXCEPT ![t] = "done"]
  /\ UNCHANGED <<senderVars, stream_c, collectorVars, job, path, partial, copies, faults>>

-----------------------------------------------------------------------------
TaskStep(t) ==
  \/ Register(t) \/ FetchCancelled(t) \/ Fetch(t) \/ FetchFails(t)
  \/ WritePartial(t) \/ Rename(t) \/ WriteFails(t) \/ Finish(t)

AnyTask == \E t \in Task : TaskStep(t)
SenderStep == DispatchFiles \/ DispatchRefused \/ \E k \in 0..MaxTasks : FillCache(k)
ServiceStep == InboundFiles \/ InboundCancel \/ FileApplied

Next ==
  \/ \E s \in Selection : Copy(s)
  \/ SenderStep
  \/ ServiceStep
  \/ AnyTask

Spec == Init /\ [][Next]_vars

\* The receiver's service loop and its tasks make progress, and a fetch is
\* answered or fails: the connection has an idle timeout.
Fairness == WF_vars(ServiceStep) /\ WF_vars(AnyTask)

LiveSpec == Spec /\ Fairness

-----------------------------------------------------------------------------
\* Superseded bodies are not served: the file cache holds bodies of the last
\* batch offered only, so a receiver cannot complete a transfer its sender has
\* cancelled.
OnlyLatestBatchServed == file_cache.entries \subseteq Members(last_outbound_files_sha)

\* A hash in the cancel registry leads to a task that is still running, works
\* on that hash, and has not been cancelled: a cancel that arrives is not lost
\* on a task that has ended, and an entry does not outlive its task.
RegistryIsLive ==
  \A s \in Sha : LET t == inbound_file_cancel_txs[s]
               IN t # 0 => /\ stage[t] \notin {"free", "spawned", "done"}
                           /\ HashOf(t) = s /\ ~Resolved(t)

\* A task is stopped by the peer's FileTransferCancel and by nothing else: the
\* registry never drops the sender of a running task.
OnlyPeerCancels ==
  \A t \in Task : cancel_rx[t] = "dropped" => stage[t] = "done"

\* A cancelled transfer leaves nothing in accept_dir once its task is over,
\* whichever of the fetch, the write and the rename the cancel met.
CancelLeavesNothing ==
  \A t \in Task : (stage[t] = "done" /\ cancel_rx[t] = "signalled" /\ path[t] # NoFile)
                    => disk[path[t]] # HashOf(t)

\* What a task reports as landed is the body it was asked to fetch: the file a
\* rename leaves at the task's path has the hash that was verified.
LandedIsVerified ==
  [][\A t \in Task : stage[t] = "rename" /\ stage'[t] = "landed"
       => disk'[path[t]] = HashOf(t)]_vars

\* The clipboard gets whole batches: the files put there are one batch, each
\* of its entries exactly once, at different paths.
InjectedBatchIsWhole ==
  \A x \in injected :
    /\ Cardinality({y[2] : y \in injected}) = Cardinality(injected)
    /\ \E s \in Selection : s[1] = Batch(x[1]) /\
         {<<job[y[1]][2], HashOf(y[1])>> : y \in injected} = Members(Entries(s))

\* Every batch comes to an end: its collector is drained, unless the peer
\* cancelled one of its tasks (a cancelled task reports nothing).
CollectorDrains ==
  []<>(\A f \in Fingerprint :
         \/ expected[f] = 0
         \/ \E t \in Task : Batch(t) = f /\ cancel_rx[t] = "signalled")
=============================================================================
