---------------------------- MODULE CaptureSession ----------------------------
(***************************************************************************)
(* One bounded packet capture: the recorder process (apps/recorder.cpp,    *)
(* src/recorder.cpp) in its container and scripts/capture_session.py,      *)
(* which runs it, copies its files out and judges whether the capture is   *)
(* complete.  The recorder may meet I/O errors, be killed or be left       *)
(* running by an interrupted script at any point.                          *)
(*                                                                         *)
(* The PCAP file is represented by its length in units, one for the file   *)
(* header, one for a record header and one or more for a frame.  Writes go *)
(* through stdio: what was accepted may still be in its buffer.            *)
(***************************************************************************)
EXTENDS Naturals

CONSTANTS
  ByteLimit,   \* --capture-bytes in units
  FrameSizes,  \* sizes of frames in units
  MaxFrames    \* bound: frames received

ASSUME CaptureAssumption ==
  ByteLimit \in Nat \ {0, 1} /\ FrameSizes \subseteq Nat \ {0} /\ MaxFrames \in Nat

VARIABLES
  recorder,   \* the process: where it is, its exit code, stop signal
  pcap,       \* PcapWriter: open, bytes_, limit_reached_; units in stdio's buffer
  metrics,    \* Metrics
  disk,       \* length of the PCAP file and the published metrics file
  script,     \* capture_session.py: where it is, code and copies
  manifest    \* status in the manifest

vars == <<recorder, pcap, metrics, disk, script, manifest>>

NoFile == [status |-> "none", pcap_bytes |-> 0, io_errors |-> 0]
Ended == {"exited", "killed"}

\* The PCAP file exists and its header has been written to stdio.
Init ==
  /\ recorder = [pc |-> "loop", code |-> 0, signalled |-> FALSE]
  /\ pcap = [open |-> TRUE, bytes |-> 1, limit |-> FALSE, buffered |-> 1]
  /\ metrics = [frames |-> 0, pcap_frames |-> 0, pcap_bytes |-> 1, limit |-> FALSE,
                io_errors |-> 0]
  /\ disk = [pcap |-> 0, metrics |-> NoFile, temporary |-> NoFile]
  /\ script = [pc |-> "exec", code |-> 1, pcap |-> 0, metrics |-> NoFile]
  /\ manifest = "incomplete"

-----------------------------------------------------------------------------
(* The recorder's loop.                                                    *)

\* fwrite and fflush hand some of the buffer to the file.
flushed(n, k) ==
  /\ disk' = [disk EXCEPT !.pcap = @ + k]
  /\ pcap.buffered + n >= k

recording == pcap.open /\ ~metrics.limit
record(n) == 1 + n
\* Seeded fault: the record header is not counted.
fits_frameOnly(n) == n <= ByteLimit - pcap.bytes

fits(n) == record(n) <= ByteLimit - pcap.bytes

received == [metrics EXCEPT !.frames = @ + 1]
receives == recorder.pc = "loop" /\ metrics.frames < MaxFrames

\* A frame that is only counted.
Observe ==
  /\ receives /\ ~recording
  /\ metrics' = received
  /\ UNCHANGED <<recorder, pcap, disk, script, manifest>>

Write(n, k) ==
  /\ receives /\ recording /\ fits(n)
  /\ flushed(record(n), k)
  /\ pcap' = [pcap EXCEPT !.bytes = @ + record(n), !.buffered = @ + record(n) - k]
  /\ metrics' = [received EXCEPT !.pcap_frames = @ + 1,
                                 !.pcap_bytes = pcap'.bytes]
  /\ UNCHANGED <<recorder, script, manifest>>

LimitReached(n) ==
  /\ receives /\ recording /\ ~fits(n)
  /\ pcap' = [pcap EXCEPT !.limit = TRUE]
  /\ metrics' = [received EXCEPT !.limit = TRUE, !.pcap_bytes = pcap.bytes]
  /\ UNCHANGED <<recorder, disk, script, manifest>>

\* Seeded fault: the byte count goes with the writer.
WriteError_resets(n, k) ==
  /\ receives /\ recording /\ fits(n)
  /\ flushed(record(n), k)
  /\ pcap' = [pcap EXCEPT !.open = FALSE, !.buffered = 0]
  /\ metrics' = [received EXCEPT !.io_errors = 1, !.pcap_bytes = 0]
  /\ UNCHANGED <<recorder, script, manifest>>

\* The write throws: part of the buffer and of the record may be on disk.  The
\* writer is destroyed; pcap_bytes keeps its last value.
WriteError(n, k) ==
  /\ receives /\ recording /\ fits(n)
  /\ flushed(record(n), k)
  /\ pcap' = [pcap EXCEPT !.open = FALSE, !.buffered = 0]
  /\ metrics' = [received EXCEPT !.io_errors = 1]
  /\ UNCHANGED <<recorder, script, manifest>>

-----------------------------------------------------------------------------
(* write_metrics: a temporary file is renamed over the published one.      *)

contents(status) == [status |-> status, pcap_bytes |-> metrics.pcap_bytes,
                     io_errors |-> metrics.io_errors]
phase(from, to) == recorder.pc = from /\ recorder' = [recorder EXCEPT !.pc = to]

WriteRunning ==
  /\ phase("loop", "rename")
  /\ disk' = [disk EXCEPT !.temporary = contents("running")]
  /\ UNCHANGED <<pcap, metrics, script, manifest>>

Rename ==
  /\ \/ phase("rename", "loop")
     \/ phase("last", "exited")
  /\ disk' = [disk EXCEPT !.metrics = disk.temporary]
  /\ UNCHANGED <<pcap, metrics, script, manifest>>

\* The 60 seconds are over, or timeout(1) sent SIGINT after 65.
LeaveLoop ==
  /\ phase("loop", "finish")
  /\ UNCHANGED <<pcap, metrics, disk, script, manifest>>

TimeoutSignal ==
  /\ recorder.pc \in {"loop", "rename"} /\ ~recorder.signalled
  /\ recorder' = [recorder EXCEPT !.signalled = TRUE, !.code = 124]
  /\ UNCHANGED <<pcap, metrics, disk, script, manifest>>

\* PcapWriter::finish, then the last write_metrics.
Finish ==
  /\ phase("finish", "stopped") /\ pcap.open
  /\ \/ flushed(0, pcap.buffered) /\ UNCHANGED metrics
     \/ /\ \E k \in 0 .. pcap.buffered : flushed(0, k)
        /\ metrics' = [metrics EXCEPT !.io_errors = 1]
  /\ pcap' = [pcap EXCEPT !.buffered = 0]
  /\ UNCHANGED <<script, manifest>>

FinishWithoutPcap ==
  /\ phase("finish", "stopped") /\ ~pcap.open
  /\ UNCHANGED <<pcap, metrics, disk, script, manifest>>

WriteStopped ==
  /\ phase("stopped", "last")
  /\ disk' = [disk EXCEPT !.temporary = contents("stopped")]
  /\ UNCHANGED <<pcap, metrics, script, manifest>>

\* An exception reaches main: the destructors flush what they can.
Fail ==
  /\ recorder.pc \notin Ended
  /\ recorder' = [recorder EXCEPT !.pc = "exited", !.code = 2]
  /\ \E k \in 0 .. pcap.buffered : flushed(0, k)
  /\ pcap' = [pcap EXCEPT !.open = FALSE, !.buffered = 0]
  /\ UNCHANGED <<metrics, script, manifest>>

\* SIGKILL, or the container goes: the buffer is lost.
Kill ==
  /\ recorder.pc \notin Ended
  /\ recorder' = [recorder EXCEPT !.pc = "killed", !.code = 137]
  /\ pcap' = [pcap EXCEPT !.open = FALSE, !.buffered = 0]
  /\ UNCHANGED <<metrics, disk, script, manifest>>

-----------------------------------------------------------------------------
(* capture_session.py.                                                     *)

moves(from, to) == script.pc = from /\ script' = [script EXCEPT !.pc = to]

ExecReturns ==
  /\ recorder.pc \in Ended
  /\ script.pc = "exec"
  /\ script' = [script EXCEPT !.pc = "copy_pcap", !.code = recorder.code]
  /\ UNCHANGED <<recorder, pcap, metrics, disk, manifest>>

\* KeyboardInterrupt or TimeoutExpired; the recorder goes on in its container.
ExecAbandoned ==
  /\ script.pc = "exec"
  /\ script' = [script EXCEPT !.pc = "copy_pcap", !.code = 130]
  /\ UNCHANGED <<recorder, pcap, metrics, disk, manifest>>

\* docker cp: what is there now, or less when it fails.
CopyPcap ==
  /\ script.pc = "copy_pcap"
  /\ \E n \in 0 .. disk.pcap :
       script' = [script EXCEPT !.pc = "copy_metrics", !.pcap = n]
  /\ UNCHANGED <<recorder, pcap, metrics, disk, manifest>>

CopyMetrics ==
  /\ script.pc = "copy_metrics"
  /\ \E file \in {NoFile, disk.metrics} :
       script' = [script EXCEPT !.pc = "judge", !.metrics = file]
  /\ UNCHANGED <<recorder, pcap, metrics, disk, manifest>>

\* Seeded fault: I/O errors are not looked at.
valid_anyErrors ==
  /\ script.metrics.status = "stopped"
  /\ script.pcap = script.metrics.pcap_bytes
  /\ script.metrics.pcap_bytes <= ByteLimit

valid ==
  /\ script.metrics.status = "stopped" /\ script.metrics.io_errors = 0
  /\ script.pcap = script.metrics.pcap_bytes
  /\ script.metrics.pcap_bytes <= ByteLimit
Judge ==
  /\ moves("judge", "done")
  /\ manifest' = IF script.code = 0 /\ valid THEN "completed" ELSE "incomplete"
  /\ UNCHANGED <<recorder, pcap, metrics, disk>>

-----------------------------------------------------------------------------

Done == script.pc = "done" /\ recorder.pc \in Ended /\ UNCHANGED vars

units == 0 .. (ByteLimit + 1)
Next ==
  \/ Observe \/ \E n \in FrameSizes : LimitReached(n)
  \/ \E n \in FrameSizes, k \in units : Write(n, k) \/ WriteError(n, k)
  \/ WriteRunning \/ Rename \/ LeaveLoop \/ TimeoutSignal
  \/ Finish \/ FinishWithoutPcap \/ WriteStopped \/ Fail \/ Kill
  \/ ExecReturns \/ ExecAbandoned \/ CopyPcap \/ CopyMetrics \/ Judge
  \/ Done

Spec == Init /\ [][Next]_vars

-----------------------------------------------------------------------------
(* Properties.                                                             *)

\* Types of the parts that change.
TypeOK ==
  /\ recorder.pc \in {"loop", "rename", "finish", "stopped", "last"} \cup Ended
  /\ pcap.bytes \in 1 .. ByteLimit /\ pcap.buffered \in 0 .. ByteLimit
  /\ metrics.frames \in 0 .. MaxFrames /\ metrics.pcap_frames \in 0 .. metrics.frames
  /\ script.pc \in {"exec", "copy_pcap", "copy_metrics", "judge", "done"}
  /\ manifest \in {"incomplete", "completed"}

\* The file never grows past --capture-bytes, error paths included.
WithinLimit == disk.pcap + pcap.buffered <= ByteLimit

\* docs/CAPTURE_PRESERVATION.md: "completed" means finalized files.  The copied
\* file is every record that was accepted, to its last unit, and nothing is
\* still to come; unless the limit was reached it holds every frame received.
CompletedIsFinal ==
  manifest = "completed" =>
    /\ recorder.pc = "exited" /\ metrics.io_errors = 0
    /\ script.pcap = disk.pcap /\ disk.pcap = pcap.bytes
    /\ metrics.limit \/ metrics.pcap_frames = metrics.frames

\* A reader of the published metrics never sees an I/O error disappear, a byte
\* count go back or a stopped recorder run again, whatever the recorder meets.
PublishedMonotone ==
  [][/\ disk.metrics.pcap_bytes <= disk.metrics'.pcap_bytes
     /\ disk.metrics.io_errors <= disk.metrics'.io_errors
     /\ disk.metrics.status = "stopped" => disk.metrics' = disk.metrics]_vars
=============================================================================
