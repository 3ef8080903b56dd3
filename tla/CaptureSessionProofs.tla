------------------------- MODULE CaptureSessionProofs -------------------------
(***************************************************************************)
(* Proofs about CaptureSession for every byte limit, set of frame sizes    *)
(* and number of frames.                                                   *)
(***************************************************************************)
EXTENDS CaptureSession, TLAPS

Statuses == {"none", "running", "stopped"}
Files == [status : Statuses, pcap_bytes : Nat, io_errors : {0, 1}]
Recorders == [pc : {"loop", "rename", "finish", "stopped", "last"} \cup Ended,
              code : {0, 2, 124, 137}, signalled : BOOLEAN]
Pcaps == [open : BOOLEAN, bytes : Nat, limit : BOOLEAN, buffered : Nat]
Counts == [frames : Nat, pcap_frames : Nat, pcap_bytes : Nat, limit : BOOLEAN,
           io_errors : {0, 1}]
Disks == [pcap : Nat, metrics : Files, temporary : Files]
Scripts == [pc : {"exec", "copy_pcap", "copy_metrics", "judge", "done"},
            code : {0, 1, 2, 124, 130, 137}, pcap : Nat, metrics : Files]
Types ==
  /\ recorder \in Recorders /\ pcap \in Pcaps /\ metrics \in Counts /\ disk \in Disks
  /\ script \in Scripts /\ manifest \in {"incomplete", "completed"}

\* Every byte accepted is in the file or in the buffer until an error.
Bytes ==
  /\ pcap.bytes \in 1 .. ByteLimit /\ metrics.pcap_bytes = pcap.bytes
  /\ disk.pcap + pcap.buffered <= ByteLimit
  /\ pcap.open /\ recorder.pc \in {"loop", "rename", "finish"} =>
       disk.pcap + pcap.buffered = pcap.bytes
  /\ ~pcap.open => pcap.buffered = 0
  /\ metrics.frames <= MaxFrames /\ metrics.pcap_frames <= metrics.frames

\* Until the recorder ends, only an error closes the writer; the frames that it
\* did not record came after the limit or after an error.
Frames ==
  /\ recorder.pc \notin Ended /\ metrics.io_errors = 0 => pcap.open
  /\ metrics.io_errors = 0 /\ ~metrics.limit => metrics.pcap_frames = metrics.frames

complete == metrics.io_errors = 0 => pcap.buffered = 0 /\ disk.pcap = pcap.bytes
\* What is published, and what is about to be, is not ahead of the metrics.
notAhead(file) == file.pcap_bytes <= metrics.pcap_bytes /\ file.io_errors <= metrics.io_errors
Published ==
  /\ notAhead(disk.metrics)
  /\ recorder.pc \in {"rename", "last"} =>
       /\ notAhead(disk.temporary)
       /\ disk.metrics.pcap_bytes <= disk.temporary.pcap_bytes
       /\ disk.metrics.io_errors <= disk.temporary.io_errors
  /\ recorder.pc = "rename" => disk.temporary.status = "running"
  /\ disk.metrics.status = "stopped" => recorder.pc \in Ended
  /\ recorder.pc \in {"stopped", "last"} => complete
  /\ recorder.pc = "last" => disk.temporary = contents("stopped")
  /\ recorder.pc = "exited" /\ recorder.code = 0 =>
       disk.metrics = contents("stopped") /\ complete

\* The script sees code 0 of a recorder that has ended so; what it copies from
\* then on is final.
Judged ==
  /\ script.pc = "exec" => script.code = 1
  /\ script.code = 0 => recorder.pc = "exited" /\ recorder.code = 0
  /\ script.code = 0 /\ script.pc \in {"judge", "done"} =>
       script.metrics \in {NoFile, disk.metrics}
  /\ manifest = "completed" => script.pc = "done" /\ script.code = 0 /\ valid

\* A recorder that is killed does not exit with 0.
Killed == recorder.pc = "killed" => recorder.code # 0

IInv == Types /\ Bytes /\ Frames /\ Published /\ Judged /\ Killed

LEMMA Initially == Init => IInv
BY CaptureAssumption
DEF Init, NoFile, IInv, Types, Bytes, Frames, Published, notAhead, complete, Judged, Ended,
    Killed, Files, Statuses, contents, Recorders, Pcaps, Counts, Disks, Scripts

LEMMA Results == IInv => TypeOK /\ WithinLimit /\ CompletedIsFinal
<1>. SUFFICES ASSUME IInv PROVE TypeOK /\ WithinLimit /\ CompletedIsFinal
  OBVIOUS
<1>. USE CaptureAssumption
<1>1. WithinLimit
  BY DEF WithinLimit, IInv, Types, Recorders, Pcaps, Counts, Disks, Scripts, Bytes
<1>2. TypeOK
  BY DEF TypeOK, IInv, Types, Recorders, Pcaps, Counts, Disks, Scripts, Bytes
<1>3. CompletedIsFinal
  BY DEF CompletedIsFinal, IInv, Types, Recorders, Pcaps, Counts, Disks, Scripts, Bytes, Frames, Published, Judged, complete, contents,
         valid, NoFile
<1>. QED BY <1>1, <1>2, <1>3

LEMMA ContentsType ==
  ASSUME Types, NEW status \in Statuses
  PROVE  /\ contents(status) \in Files /\ contents(status).status = status
         /\ contents(status).pcap_bytes = metrics.pcap_bytes
         /\ contents(status).io_errors = metrics.io_errors
BY DEF contents, Files, Types, Counts

\* A frame: counted, recorded, or the one that meets the limit or an error.
LEMMA FrameStep ==
  ASSUME IInv, \/ Observe
               \/ \E n \in FrameSizes : LimitReached(n)
               \/ \E n \in FrameSizes, k \in units : Write(n, k) \/ WriteError(n, k)
  PROVE  IInv'
<1>. USE CaptureAssumption
<1>0. /\ recorder.pc = "loop" /\ metrics.frames < MaxFrames
      /\ UNCHANGED <<recorder, script, manifest>>
  BY DEF Observe, LimitReached, Write, WriteError, receives
<1>1. /\ metrics.frames \in Nat /\ metrics.pcap_frames \in Nat /\ metrics.pcap_bytes \in Nat
      /\ metrics.io_errors \in {0, 1} /\ metrics.limit \in BOOLEAN
      /\ pcap.bytes \in Nat /\ pcap.buffered \in Nat /\ disk.pcap \in Nat
      /\ pcap.open \in BOOLEAN /\ disk.metrics \in Files
  BY DEF IInv, Types, Counts, Pcaps, Disks
<1>2. CASE Observe
  <2>1. /\ metrics' = [metrics EXCEPT !.frames = metrics.frames + 1]
        /\ UNCHANGED <<pcap, disk>>
        /\ ~pcap.open \/ metrics.limit
    BY <1>2 DEF Observe, received, recording
  <2>2. Types'
    BY <1>0, <1>1, <2>1 DEF IInv, Types, Counts
  <2>3. Bytes' /\ Frames'
    BY <1>0, <1>1, <2>1 DEF IInv, Types, Counts, Pcaps, Disks, Bytes, Frames, Ended
  <2>4. Published' /\ Judged'
    BY <1>0, <2>1 DEF IInv, Types, Counts, Published, Judged, notAhead, complete, contents, valid, Ended
  <2>. QED BY <1>0, <2>2, <2>3, <2>4 DEF IInv, Killed
<1>3. ASSUME NEW n \in FrameSizes, LimitReached(n) PROVE IInv'
  <2>1. /\ metrics' = [metrics EXCEPT !.frames = metrics.frames + 1, !.limit = TRUE,
                                     !.pcap_bytes = pcap.bytes]
        /\ pcap' = [pcap EXCEPT !.limit = TRUE] /\ UNCHANGED disk
    BY <1>3 DEF LimitReached, received, IInv, Types, Counts
  <2>2. Types'
    <3>0. metrics.frames + 1 \in Nat /\ pcap \in Pcaps /\ metrics \in Counts
      BY <1>1 DEF IInv, Types
    <3>1. pcap' \in Pcaps
      BY <2>1, <3>0 DEF Pcaps
    <3>2. metrics' \in Counts
      BY <1>1, <2>1, <3>0 DEF Counts
    <3>. QED BY <1>0, <2>1, <3>1, <3>2 DEF IInv, Types
  <2>3. Bytes' /\ Frames'
    BY <1>0, <1>1, <2>1 DEF IInv, Types, Counts, Pcaps, Disks, Bytes, Frames, Ended
  <2>4. Published' /\ Judged'
    BY <1>0, <1>1, <2>1
    DEF IInv, Types, Counts, Pcaps, Disks, Bytes, Published, Judged, notAhead, complete, contents, valid, Ended
  <2>. QED BY <1>0, <2>2, <2>3, <2>4 DEF IInv, Killed
<1>4. ASSUME NEW n \in FrameSizes, NEW k \in units, Write(n, k) \/ WriteError(n, k) PROVE IInv'
  <2>. DEFINE r == 1 + n
  <2>1. /\ n \in Nat /\ k \in Nat /\ r \in Nat /\ k <= pcap.buffered + r
        /\ r <= ByteLimit - pcap.bytes
        /\ disk' = [disk EXCEPT !.pcap = disk.pcap + k]
        /\ pcap.open /\ ~metrics.limit
    <3>1. n \in Nat /\ k \in Nat
      BY DEF units
    <3>2. flushed(record(n), k) /\ fits(n) /\ recording
      BY <1>4 DEF Write, WriteError
    <3>. QED BY <1>1, <3>1, <3>2 DEF flushed, fits, record, recording, IInv, Frames
  <2>2. CASE Write(n, k)
    <3>1. /\ pcap' = [pcap EXCEPT !.bytes = pcap.bytes + r, !.buffered = pcap.buffered + r - k]
          /\ metrics' = [metrics EXCEPT !.frames = metrics.frames + 1,
                                       !.pcap_frames = metrics.pcap_frames + 1,
                                       !.pcap_bytes = pcap.bytes + r]
      BY <2>2 DEF Write, record, received, IInv, Types, Pcaps, Counts
    <3>2. pcap.buffered + r - k \in Nat
      BY <1>1, <2>1
    <3>3. Types'
      <4>0. /\ pcap.bytes + r \in Nat /\ metrics.frames + 1 \in Nat
            /\ metrics.pcap_frames + 1 \in Nat /\ pcap \in Pcaps /\ metrics \in Counts
        BY <1>1, <2>1 DEF IInv, Types
      <4>1. pcap' \in Pcaps /\ metrics' \in Counts
        <5>. HIDE DEF r
        <5>1. pcap' \in Pcaps
          BY <3>1, <3>2, <4>0 DEF Pcaps
        <5>2. metrics' \in Counts
          BY <3>1, <4>0 DEF Counts
        <5>. QED BY <5>1, <5>2
      <4>2. disk' \in Disks
        BY <1>1, <2>1 DEF IInv, Types, Disks
      <4>. QED BY <1>0, <4>1, <4>2 DEF IInv, Types
    <3>4. Bytes' /\ Frames'
      BY <1>0, <1>1, <2>1, <3>1 DEF IInv, Types, Counts, Pcaps, Disks, Bytes, Frames, Ended
    <3>5. Published' /\ Judged'
      BY <1>0, <1>1, <2>1, <3>1
      DEF IInv, Types, Counts, Pcaps, Disks, Bytes, Published, Judged, notAhead, complete, contents, valid, Ended, Files
    <3>. QED BY <1>0, <3>3, <3>4, <3>5 DEF IInv, Killed
  <2>3. CASE WriteError(n, k)
    <3>1. /\ pcap' = [pcap EXCEPT !.open = FALSE, !.buffered = 0]
          /\ metrics' = [metrics EXCEPT !.frames = metrics.frames + 1, !.io_errors = 1]
      BY <2>3 DEF WriteError, received, IInv, Types, Pcaps, Counts
    <3>3. Types'
      <4>0. metrics.frames + 1 \in Nat /\ pcap \in Pcaps /\ metrics \in Counts
        BY <1>1 DEF IInv, Types
      <4>1. pcap' \in Pcaps /\ metrics' \in Counts
        <5>1. pcap' \in Pcaps
          BY <3>1, <4>0 DEF Pcaps
        <5>2. metrics' \in Counts
          BY <3>1, <4>0 DEF Counts
        <5>. QED BY <5>1, <5>2
      <4>2. disk' \in Disks
        BY <1>1, <2>1 DEF IInv, Types, Disks
      <4>. QED BY <1>0, <4>1, <4>2 DEF IInv, Types
    <3>4. Bytes' /\ Frames'
      <4>1. disk.pcap + k <= ByteLimit /\ disk'.pcap = disk.pcap + k
        BY <1>0, <1>1, <2>1 DEF IInv, Types, Disks, Bytes
      <4>. QED BY <1>0, <1>1, <2>1, <3>1, <4>1 DEF IInv, Types, Counts, Pcaps, Disks, Bytes, Frames, Ended
    <3>5. Published' /\ Judged'
      BY <1>0, <1>1, <2>1, <3>1
      DEF IInv, Types, Counts, Pcaps, Disks, Bytes, Published, Judged, notAhead, complete, contents, valid, Ended, Files
    <3>. QED BY <1>0, <3>3, <3>4, <3>5 DEF IInv, Killed
  <2>. QED BY <1>4, <2>2, <2>3
<1>. QED BY <1>2, <1>3, <1>4

\* The recorder's other steps.
LEMMA RecorderStep ==
  ASSUME IInv, \/ WriteRunning \/ Rename \/ LeaveLoop \/ TimeoutSignal
               \/ Finish \/ FinishWithoutPcap \/ WriteStopped \/ Fail \/ Kill
  PROVE  IInv'
<1>. USE CaptureAssumption
<1>0. UNCHANGED <<script, manifest>>
  BY DEF WriteRunning, Rename, LeaveLoop, TimeoutSignal, Finish, FinishWithoutPcap,
         WriteStopped, Fail, Kill
<1>1. /\ recorder \in Recorders /\ pcap \in Pcaps /\ metrics \in Counts /\ disk \in Disks
      /\ script \in Scripts
  BY DEF IInv, Types
<1>2. /\ pcap.bytes \in Nat /\ pcap.buffered \in Nat /\ disk.pcap \in Nat
      /\ pcap.open \in BOOLEAN /\ metrics.pcap_bytes \in Nat /\ metrics.io_errors \in {0, 1}
      /\ disk.metrics \in Files /\ disk.temporary \in Files
  BY <1>1 DEF Pcaps, Disks, Counts
<1>3. \A file \in Files : file.pcap_bytes \in Nat /\ file.io_errors \in {0, 1}
  BY DEF Files
<1>4. CASE WriteRunning
  <2>1. /\ recorder' = [recorder EXCEPT !.pc = "rename"] /\ recorder.pc = "loop"
        /\ disk' = [disk EXCEPT !.temporary = contents("running")]
        /\ UNCHANGED <<pcap, metrics>>
    BY <1>4 DEF WriteRunning, phase
  <2>2. /\ contents("running") \in Files /\ contents("running").status = "running"
        /\ contents("running").pcap_bytes = metrics.pcap_bytes
        /\ contents("running").io_errors = metrics.io_errors
    BY ContentsType DEF Statuses, IInv
  <2>3. Types'
    BY <1>0, <1>1, <2>1, <2>2 DEF IInv, Types, Recorders, Disks
  <2>4. Bytes' /\ Frames'
    BY <1>1, <2>1 DEF IInv, Bytes, Frames, Recorders, Disks, Ended
  <2>5. Published'
    BY <1>1, <1>2, <1>3, <2>1, <2>2
    DEF IInv, Published, notAhead, Recorders, Disks, Ended
  <2>6. Judged'
    BY <1>0, <1>1, <2>1 DEF IInv, Judged, Recorders, Disks, valid
  <2>. QED BY <1>1, <2>1, <2>3, <2>4, <2>5, <2>6 DEF IInv, Killed, Recorders
<1>5. CASE Rename
  <2>1. /\ \/ recorder.pc = "rename" /\ recorder' = [recorder EXCEPT !.pc = "loop"]
           \/ recorder.pc = "last" /\ recorder' = [recorder EXCEPT !.pc = "exited"]
        /\ disk' = [disk EXCEPT !.metrics = disk.temporary]
        /\ UNCHANGED <<pcap, metrics>>
    BY <1>5 DEF Rename, phase
  <2>3. Types'
    BY <1>0, <1>1, <1>2, <2>1 DEF IInv, Types, Recorders, Disks, Ended
  <2>4. Bytes' /\ Frames'
    BY <1>1, <2>1 DEF IInv, Bytes, Frames, Recorders, Disks, Ended
  <2>5. Published'
    BY <1>1, <1>2, <1>3, <2>1
    DEF IInv, Published, notAhead, Recorders, Disks, Ended, complete, contents
  <2>6. Judged'
    BY <1>0, <1>1, <2>1 DEF IInv, Judged, Recorders, Disks, valid
  <2>. QED BY <1>1, <2>1, <2>3, <2>4, <2>5, <2>6 DEF IInv, Killed, Recorders
<1>6. CASE LeaveLoop \/ TimeoutSignal \/ FinishWithoutPcap
  <2>1. UNCHANGED <<disk, pcap, metrics>> /\ recorder.pc \in {"loop", "rename", "finish"}
    BY <1>6 DEF LeaveLoop, TimeoutSignal, FinishWithoutPcap, phase
  <2>2. /\ recorder' \in Recorders /\ recorder'.pc \in {"loop", "rename", "finish", "stopped"}
        /\ recorder'.pc = "rename" => recorder.pc = "rename"
        /\ recorder'.pc = "stopped" => ~pcap.open /\ recorder.pc = "finish"
    <3>1. CASE LeaveLoop
      BY <1>1, <3>1 DEF LeaveLoop, phase, Recorders
    <3>2. CASE TimeoutSignal
      <4>1. /\ recorder' = [recorder EXCEPT !.signalled = TRUE, !.code = 124]
            /\ recorder.pc \in {"loop", "rename"}
        BY <3>2 DEF TimeoutSignal
      <4>2. recorder' \in Recorders /\ recorder'.pc = recorder.pc
        BY <1>1, <4>1 DEF Recorders
      <4>. QED BY <4>1, <4>2
    <3>3. CASE FinishWithoutPcap
      BY <1>1, <3>3 DEF FinishWithoutPcap, phase, Recorders
    <3>. QED BY <1>6, <3>1, <3>2, <3>3
  <2>3. Types'
    BY <1>0, <2>1, <2>2 DEF IInv, Types
  <2>5. Bytes' /\ Frames'
    BY <2>1, <2>2 DEF IInv, Bytes, Frames, Ended
  <2>8. Published'
    BY <1>1, <2>1, <2>2
    DEF IInv, Published, Frames, notAhead, complete, contents, Ended
  <2>9. Judged'
    BY <1>0, <1>1, <2>1 DEF IInv, Judged, valid, Ended
  <2>. QED BY <2>2, <2>3, <2>5, <2>8, <2>9 DEF IInv, Killed
<1>7. CASE Finish
  <2>1. PICK k \in 0 .. pcap.buffered :
          /\ disk' = [disk EXCEPT !.pcap = disk.pcap + k]
          /\ \/ k = pcap.buffered /\ metrics' = metrics
             \/ metrics' = [metrics EXCEPT !.io_errors = 1]
    BY <1>2, <1>7 DEF Finish, flushed
  <2>2. /\ recorder.pc = "finish" /\ recorder' = [recorder EXCEPT !.pc = "stopped"]
        /\ pcap.open /\ pcap' = [pcap EXCEPT !.buffered = 0]
    BY <1>7 DEF Finish, phase
  <2>3. disk.pcap + k \in Nat /\ disk.pcap + k <= disk.pcap + pcap.buffered
    BY <1>2
  <2>4. disk' \in Disks /\ pcap' \in Pcaps /\ recorder' \in Recorders /\ metrics' \in Counts
    BY <1>1, <2>1, <2>2, <2>3 DEF Disks, Pcaps, Recorders, Counts
  <2>5. Types'
    BY <1>0, <2>4 DEF IInv, Types
  <2>6. /\ disk'.pcap = disk.pcap + k /\ disk'.metrics = disk.metrics
        /\ pcap'.buffered = 0 /\ pcap'.open /\ pcap'.bytes = pcap.bytes
        /\ metrics'.pcap_bytes = metrics.pcap_bytes /\ metrics'.frames = metrics.frames
        /\ metrics'.pcap_frames = metrics.pcap_frames /\ metrics'.limit = metrics.limit
        /\ metrics'.io_errors \in {metrics.io_errors, 1}
        /\ metrics'.io_errors = 0 => k = pcap.buffered /\ metrics.io_errors = 0
        /\ recorder'.pc = "stopped"
    BY <1>1, <2>1, <2>2 DEF Disks, Pcaps, Recorders, Counts
  <2>7. /\ disk.pcap + pcap.buffered = pcap.bytes /\ pcap.bytes \in 1 .. ByteLimit
        /\ metrics.pcap_bytes = pcap.bytes
        /\ metrics.frames <= MaxFrames /\ metrics.pcap_frames <= metrics.frames
    BY <2>2 DEF IInv, Bytes
  <2>8. complete'
    BY <2>6, <2>7 DEF complete
  <2>9. Bytes'
    <3>1. disk'.pcap + pcap'.buffered <= ByteLimit
      BY <1>2, <2>3, <2>6, <2>7
    <3>. QED BY <2>6, <2>7, <3>1 DEF Bytes
  <2>10. Frames'
    BY <1>1, <2>1, <2>2, <2>6 DEF IInv, Frames, Ended
  <2>11. Published'
    BY <1>2, <1>3, <2>2, <2>6, <2>8 DEF IInv, Published, notAhead, Ended
  <2>12. Judged'
    BY <1>0, <1>1, <2>2, <2>6 DEF IInv, Judged, valid, Ended
  <2>. QED BY <2>5, <2>6, <2>9, <2>10, <2>11, <2>12 DEF IInv, Killed
<1>8. CASE WriteStopped
  <2>1. /\ recorder' = [recorder EXCEPT !.pc = "last"] /\ recorder.pc = "stopped"
        /\ disk' = [disk EXCEPT !.temporary = contents("stopped")]
        /\ UNCHANGED <<pcap, metrics>>
    BY <1>8 DEF WriteStopped, phase
  <2>2. /\ contents("stopped") \in Files /\ contents("stopped").status = "stopped"
        /\ contents("stopped").pcap_bytes = metrics.pcap_bytes
        /\ contents("stopped").io_errors = metrics.io_errors
    BY ContentsType DEF Statuses, IInv
  <2>3. Types'
    BY <1>0, <1>1, <2>1, <2>2 DEF IInv, Types, Recorders, Disks
  <2>4. Bytes' /\ Frames'
    BY <1>1, <2>1 DEF IInv, Bytes, Frames, Recorders, Disks, Ended
  <2>5. Published'
    BY <1>1, <1>2, <1>3, <2>1, <2>2
    DEF IInv, Published, notAhead, Recorders, Disks, Ended, complete, contents
  <2>6. Judged'
    BY <1>0, <1>1, <2>1 DEF IInv, Judged, Recorders, Disks, valid
  <2>. QED BY <1>1, <2>1, <2>3, <2>4, <2>5, <2>6 DEF IInv, Killed, Recorders
<1>9. CASE Fail \/ Kill
  <2>1. PICK k \in 0 .. pcap.buffered : disk' = [disk EXCEPT !.pcap = disk.pcap + k]
    <3>1. CASE Fail
      BY <1>2, <3>1 DEF Fail, flushed
    <3>2. CASE Kill
      <4>1. disk' = [disk EXCEPT !.pcap = disk.pcap + 0] /\ 0 \in 0 .. pcap.buffered
        BY <1>1, <1>2, <3>2 DEF Kill, Disks
      <4>. QED BY <4>1
    <3>. QED BY <1>9, <3>1, <3>2
  <2>2. /\ recorder.pc \notin Ended
        /\ \/ recorder' = [recorder EXCEPT !.pc = "exited", !.code = 2]
           \/ recorder' = [recorder EXCEPT !.pc = "killed", !.code = 137]
        /\ pcap' = [pcap EXCEPT !.open = FALSE, !.buffered = 0] /\ UNCHANGED metrics
    BY <1>9 DEF Fail, Kill
  <2>3. disk.pcap + k \in Nat /\ disk.pcap + k <= disk.pcap + pcap.buffered
    BY <1>2
  <2>4. recorder' \in Recorders /\ recorder'.pc \in Ended /\ recorder'.code # 0
    <3>1. CASE Fail
      <4>1. recorder' = [recorder EXCEPT !.pc = "exited", !.code = 2] /\ "exited" \in Ended
        BY <3>1 DEF Fail, Ended
      <4>2. recorder' \in Recorders
        BY <1>1, <4>1 DEF Recorders
      <4>3. recorder'.pc = "exited" /\ recorder'.code = 2
        BY <1>1, <4>1 DEF Recorders
      <4>. QED BY <4>1, <4>2, <4>3
    <3>2. CASE Kill
      <4>1. recorder' = [recorder EXCEPT !.pc = "killed", !.code = 137] /\ "killed" \in Ended
        BY <3>2 DEF Kill, Ended
      <4>2. recorder' \in Recorders
        BY <1>1, <4>1 DEF Recorders
      <4>3. recorder'.pc = "killed" /\ recorder'.code = 137
        BY <1>1, <4>1 DEF Recorders
      <4>. QED BY <4>1, <4>2, <4>3
    <3>. QED BY <1>9, <3>1, <3>2
  <2>5. disk' \in Disks /\ pcap' \in Pcaps
    BY <1>1, <2>1, <2>2, <2>3 DEF Disks, Pcaps
  <2>6. Types'
    BY <1>0, <2>2, <2>4, <2>5 DEF IInv, Types
  <2>7. /\ disk'.pcap = disk.pcap + k /\ disk'.metrics = disk.metrics
        /\ pcap'.buffered = 0 /\ ~pcap'.open /\ pcap'.bytes = pcap.bytes
        /\ recorder'.pc \in Ended /\ recorder'.code # 0
    BY <1>1, <2>1, <2>2, <2>4 DEF Disks, Pcaps
  <2>8. Bytes'
    <3>1. disk'.pcap + pcap'.buffered <= ByteLimit
      BY <1>2, <2>3, <2>7 DEF IInv, Bytes
    <3>. QED BY <2>2, <2>7, <3>1 DEF IInv, Bytes
  <2>9. Frames'
    BY <2>2, <2>7 DEF IInv, Frames
  <2>10. Published'
    BY <1>2, <1>3, <2>2, <2>7 DEF IInv, Published, notAhead, Ended
  <2>11. Judged'
    BY <1>0, <1>1, <2>2, <2>7 DEF IInv, Judged, valid, Ended
  <2>. QED BY <2>6, <2>7, <2>8, <2>9, <2>10, <2>11 DEF IInv, Killed
<1>. QED BY <1>4, <1>5, <1>6, <1>7, <1>8, <1>9

\* The script's steps only copy.
LEMMA ScriptStep ==
  ASSUME IInv, ExecReturns \/ ExecAbandoned \/ CopyPcap \/ CopyMetrics \/ Judge
  PROVE  IInv'
<1>0. UNCHANGED <<recorder, pcap, metrics, disk>>
  BY DEF ExecReturns, ExecAbandoned, CopyPcap, CopyMetrics, Judge
<1>1. /\ recorder \in Recorders /\ disk \in Disks /\ script \in Scripts
      /\ disk.pcap \in Nat /\ disk.metrics \in Files /\ recorder.code \in {0, 2, 124, 137}
      /\ NoFile \in Files
  BY DEF IInv, Types, Disks, Recorders, NoFile, Files, Statuses
<1>2. Bytes' /\ Frames' /\ Published'
  BY <1>0 DEF IInv, Bytes, Frames, Published, notAhead, complete, contents, Ended
<1>3. CASE ExecReturns
  <2>1. /\ recorder.pc \in Ended /\ script.pc = "exec" /\ manifest' = manifest
        /\ script' = [script EXCEPT !.pc = "copy_pcap", !.code = recorder.code]
    BY <1>3 DEF ExecReturns
  <2>2. script' \in Scripts /\ script'.pc = "copy_pcap" /\ script'.code = recorder.code
    BY <1>1, <2>1 DEF Scripts
  <2>3. recorder.code = 0 => recorder.pc = "exited"
    BY <2>1 DEF IInv, Killed, Ended
  <2>. QED BY <1>0, <1>2, <2>1, <2>2, <2>3 DEF IInv, Types, Judged, Killed
<1>4. CASE ExecAbandoned
  <2>1. /\ script.pc = "exec" /\ manifest' = manifest
        /\ script' = [script EXCEPT !.pc = "copy_pcap", !.code = 130]
    BY <1>4 DEF ExecAbandoned
  <2>2. script' \in Scripts /\ script'.pc = "copy_pcap" /\ script'.code = 130
    BY <1>1, <2>1 DEF Scripts
  <2>. QED BY <1>0, <1>2, <2>1, <2>2 DEF IInv, Types, Judged, Killed
<1>5. CASE CopyPcap
  <2>1. PICK n \in 0 .. disk.pcap :
          script' = [script EXCEPT !.pc = "copy_metrics", !.pcap = n]
    BY <1>5 DEF CopyPcap
  <2>2. script' \in Scripts /\ script'.pc = "copy_metrics" /\ script'.code = script.code
    <3>1. n \in Nat
      BY <1>1
    <3>. QED BY <1>1, <2>1, <3>1 DEF Scripts
  <2>3. script.pc = "copy_pcap" /\ manifest' = manifest
    BY <1>5 DEF CopyPcap
  <2>. QED BY <1>0, <1>2, <2>2, <2>3 DEF IInv, Types, Judged, Killed
<1>6. CASE CopyMetrics
  <2>1. PICK file \in {NoFile, disk.metrics} :
          script' = [script EXCEPT !.pc = "judge", !.metrics = file]
    BY <1>6 DEF CopyMetrics
  <2>2. /\ script' \in Scripts /\ script'.pc = "judge" /\ script'.code = script.code
        /\ script'.metrics = file
    BY <1>1, <2>1, ZenonT(40) DEF Scripts
  <2>3. script.pc = "copy_metrics" /\ manifest' = manifest
    BY <1>6 DEF CopyMetrics
  <2>. QED BY <1>0, <1>2, <2>1, <2>2, <2>3 DEF IInv, Types, Judged, Killed
<1>7. CASE Judge
  <2>1. /\ script.pc = "judge" /\ script' = [script EXCEPT !.pc = "done"]
        /\ manifest' = IF script.code = 0 /\ valid THEN "completed" ELSE "incomplete"
    BY <1>7 DEF Judge, moves
  <2>2. /\ script' \in Scripts /\ script'.pc = "done" /\ script'.code = script.code
        /\ script'.metrics = script.metrics /\ script'.pcap = script.pcap
    BY <1>1, <2>1 DEF Scripts
  <2>3. valid' <=> valid
    BY <2>2 DEF valid
  <2>. QED BY <1>0, <1>2, <2>1, <2>2, <2>3 DEF IInv, Types, Judged, Killed
<1>. QED BY <1>3, <1>4, <1>5, <1>6, <1>7

LEMMA Invariance == Spec => []IInv
<1>1. IInv /\ [Next]_vars => IInv'
  <2>. SUFFICES ASSUME IInv, [Next]_vars PROVE IInv'
    OBVIOUS
  <2>1. CASE UNCHANGED vars
    BY <2>1
    DEF vars, IInv, Types, Bytes, Frames, Published, notAhead, complete, contents, Judged,
        Killed, valid
  <2>. QED BY <2>1, FrameStep, RecorderStep, ScriptStep DEF Next, Done
<1>. QED BY <1>1, Initially, PTL DEF Spec

\* Types of recorder, script and files.
THEOREM CaptureTypeCorrect == Spec => []TypeOK
BY Invariance, Results, PTL

\* No path of the recorder writes past --capture-bytes.
THEOREM LimitTheorem == Spec => []WithinLimit
BY Invariance, Results, PTL

\* A capture judged complete is complete: whatever was killed, interrupted, lost
\* or in error, and whenever.
THEOREM CompletedTheorem == Spec => []CompletedIsFinal
BY Invariance, Results, PTL

\* Published metrics only go forward.
THEOREM PublishedTheorem == Spec => PublishedMonotone
<1>1. ASSUME IInv, [Next]_vars
      PROVE  /\ disk.metrics.pcap_bytes <= disk.metrics'.pcap_bytes
             /\ disk.metrics.io_errors <= disk.metrics'.io_errors
             /\ disk.metrics.status = "stopped" => disk.metrics' = disk.metrics
  <2>1. CASE Rename
    <3>1. disk' = [disk EXCEPT !.metrics = disk.temporary] /\ recorder.pc \in {"rename", "last"}
      BY <2>1 DEF Rename, phase
    <3>2. disk'.metrics = disk.temporary
      BY <1>1, <3>1 DEF IInv, Types, Disks
    <3>. QED BY <1>1, <3>1, <3>2 DEF IInv, Published, Ended
  <2>2. CASE ~Rename
    <3>1. disk'.metrics = disk.metrics
      BY <1>1, <2>2
      DEF IInv, Types, Disks, Next, Done, vars, Observe, LimitReached, Write, WriteError,
          flushed, WriteRunning, LeaveLoop, TimeoutSignal, Finish, FinishWithoutPcap,
          WriteStopped, Fail, Kill, ExecReturns, ExecAbandoned, CopyPcap, CopyMetrics, Judge
    <3>2. disk.metrics.pcap_bytes \in Nat /\ disk.metrics.io_errors \in {0, 1}
      BY <1>1 DEF IInv, Types, Disks, Files
    <3>. QED BY <3>1, <3>2
  <2>. QED BY <2>1, <2>2
<1>. QED BY <1>1, Invariance, PTL DEF Spec, PublishedMonotone
=============================================================================
