------------------------------ MODULE MC_Peers ------------------------------
(***************************************************************************)
(* What one machine does for another: `part` says whether this behaviour   *)
(* is about the keys it emulates for a peer ("keys"), the files one sends  *)
(* and the other fetches ("files"), or the streams of a session            *)
(* ("streams").  The variables of the other parts stay as they are         *)
(* initially.                                                              *)
(***************************************************************************)
EXTENDS Receiver

CONSTANTS NoSel, NoFile

VARIABLE part

-----------------------------------------------------------------------------
VARIABLES files, last_outbound_files_fingerprint, last_outbound_files_sha, file_cache,
          dispatching, stream_c, expected, received, inbound_file_cancel_txs, stage, job,
          cancel_rx, path, files_applied_rx, partial, disk, injected, copies, faults

\* A batch of two files superseded by a batch of one, all of length 1.
FileHashes == {"a", "b", "c"}
FileSizes == [s \in FileHashes |-> 1]
FileNames == {"n1", "n2", "n3"}
FileSelections == {<<"A", <<<<"n1", "a">>, <<"n2", "b">>>>>>, <<"B", <<<<"n3", "c">>>>>>}

Ft == INSTANCE FileTransfer WITH Sha <- FileHashes, Size <- FileSizes, ByteBudget <- 2,
                                 Selection <- FileSelections, Name <- FileNames,
                                 MaxTasks <- 3, MaxCopies <- 2, MaxFaults <- 2

fileVars == <<files, last_outbound_files_fingerprint, last_outbound_files_sha, file_cache,
              dispatching, stream_c, expected, received, inbound_file_cancel_txs, stage, job,
              cancel_rx, path, files_applied_rx, partial, disk, injected, copies, faults>>

-----------------------------------------------------------------------------
VARIABLES opener, load, connected, pipe, kind, cached_send, frames_sent, writing, run,
          accepted, accept, parked, reader, delivered, written, read, fetch

StreamLoads == {[B |-> 1, C |-> 1, http |-> 0], [B |-> 2, C |-> 0, http |-> 1],
                [B |-> 0, C |-> 2, http |-> 1]}

St == INSTANCE Streams WITH Loads <- StreamLoads, Chunks <- 2, Window <- 1
streamVars == <<opener, load, connected, pipe, kind, cached_send, frames_sent, writing, run,
                accepted, accept, parked, reader, delivered, written, read, fetch>>

-----------------------------------------------------------------------------
allVars == <<part, vars, fileVars, streamVars>>

MCInit ==
  /\ part \in {"keys", "files", "streams"}
  /\ Init
  /\ Ft!Init
  /\ St!Init
  /\ part # "streams" => opener = "dialer" /\ load = [B |-> 1, C |-> 1, http |-> 0]

KeysOnly == part = "keys" /\ UNCHANGED <<part, fileVars, streamVars>>
FilesOnly == part = "files" /\ UNCHANGED <<part, vars, streamVars>>
StreamsOnly == part = "streams" /\ UNCHANGED <<part, vars, fileVars>>

MCNext ==
  \/ KeysOnly /\ Next
  \/ FilesOnly /\ Ft!Next
  \/ StreamsOnly /\ St!Next

\* The fairness of the three modules; there is one session and one peer, and
\* the listen task is the one that terminates.
MCFairness ==
  /\ WF_allVars(KeysOnly /\ \E s \in Session : SessionStep(s))
  /\ WF_allVars(KeysOnly /\ (ListenStep \/ TerminateDone)) /\ SF_allVars(KeysOnly /\ Sweep)
  /\ WF_allVars(KeysOnly /\ \E a \in Addr : Age(a))
  /\ WF_allVars(KeysOnly /\ EmulationTaskStep)
  /\ WF_allVars(FilesOnly /\ Ft!ServiceStep)
  /\ WF_allVars(FilesOnly /\ Ft!AnyTask)
  /\ WF_allVars(StreamsOnly /\ St!AcceptStep)
  /\ WF_allVars(StreamsOnly /\ St!AnyWriter)
  /\ WF_allVars(StreamsOnly /\ St!AnyReader)

MCSpec == MCInit /\ [][MCNext]_allVars /\ MCFairness

-----------------------------------------------------------------------------
(* What is checked of FileTransfer and Streams; they state the conjuncts. *)



\* A session hands on what was sent: frames in order and no other, a response
\* as a whole or not at all, and its run() ends when the connection does, not
\* before.
SessionIsFaithful == St!SessionIsFaithful

\* Frames that were sent arrive while the connection lasts.
FramesArrive == St!FramesArrive
=============================================================================
